---- MODULE Spec2Model ----
(***************************************************************************)
(* Model of the Clio client of src/clio.py: the OAuth2 session (token      *)
(* manager) and the create/update protocol for contacts and matters.       *)
(*                                                                         *)
(* Python's None is the empty tuple and a held value x is the 1-tuple      *)
(* <<x>>, so that an optional field of any type compares with None.        *)
(* A call's outcome is a tagged tuple: <<"bool", b>>, <<"int", n>>,        *)
(* <<"None">>, <<"url", nonce>> or <<"raise", exception>>.                  *)
(***************************************************************************)
EXTENDS Integers, Sequences, FiniteSets, TLC

VARIABLES _token, _refreshToken, whenTokenExpires, isAuthorized, _state,
          now, exchanged, contact, matter, op, args, ret, reqs,
          userInstalledCustomActions, remoteLabels

sessionVars == <<_token, _refreshToken, whenTokenExpires, isAuthorized, _state>>
callVars == <<op, args, ret, reqs>>
objectVars == <<contact, matter>>
registryVars == <<userInstalledCustomActions, remoteLabels>>
vars == <<_token, _refreshToken, whenTokenExpires, isAuthorized, _state,
          now, exchanged, contact, matter, op, args, ret, reqs,
          userInstalledCustomActions, remoteLabels>>

----------------------------------------------------------------------------
(* Bounds *)

MaxToken == 2
MaxNonce == 2
MaxTime == 3
MaxExpiresIn == 2
MaxId == 2
MaxEtag == 2

----------------------------------------------------------------------------
(* Values *)

None == <<>>
Some(x) == <<x>>
Opt(S) == {None} \cup {Some(x) : x \in S}

Tokens == 1..MaxToken
Nonces == 1..MaxNonce
Codes == {1}
Errors == {"access_denied"}
Ids == 1..MaxId
Etags == 1..MaxEtag
Times == 0..MaxTime

RetBool(b) == <<"bool", b>>
RetInt(n) == <<"int", n>>
RetNone == <<"None">>
RetUrl(nonce) == <<"url", nonce>>
Raise(e) == <<"raise", e>>

\* status codes the token endpoint answers with
TokenStatusCodes == {200, 400, 401}

\* response.json() of a token-endpoint answer
TokenBodies ==
    [access_token : Tokens, refresh_token : Tokens, expires_in : 0..MaxExpiresIn]

\* an answer of the token endpoint: a 200 answer carries the JSON body
TokenResponses ==
    {[status_code |-> 200, json |-> Some(b)] : b \in TokenBodies}
      \cup {[status_code |-> s, json |-> None] : s \in TokenStatusCodes \ {200}}

\* requests.post(f"{_oauthBaseUrl}/token", ...) as seen on the wire
TokenRequest(grant, credential, resp) ==
    [url |-> "oauth/token", grant_type |-> grant, credential |-> credential,
     response |-> resp]

----------------------------------------------------------------------------
(* Token manager *)

\* variant of StateRefused with the comparison of the state inverted
StateRefused_OnMatch(state, error) == error # None /\ Some(state) = _state

\* line 371: the callback is refused only when an error is signalled AND the
\* echoed state differs from the stored nonce
StateRefused(state, error) == error # None /\ Some(state) # _state

\* variant of ExpiryAt that forgets the lifetime
ExpiryAt_NowOnly(t, expires_in) == t

\* line 395: datetime.now(timezone.utc) + timedelta(seconds=expires_in)
ExpiryAt(t, expires_in) == t + expires_in

\* variant of checkAccessTokenAt that still accepts the token at its expiry
checkAccessTokenAt_Inclusive(tok, expiry, t) ==
    IF tok = None \/ expiry = None THEN FALSE ELSE t <= expiry[1]

\* lines 405-407
checkAccessTokenAt(tok, expiry, t) ==
    IF tok = None \/ expiry = None THEN FALSE ELSE t < expiry[1]

getAuthorizationRequestLink ==
    /\ op' = "getAuthorizationRequestLink"
    /\ args' = <<>>
    /\ reqs' = <<>>
    /\ IF isAuthorized
         THEN /\ ret' = RetNone
              /\ UNCHANGED _state
         ELSE \E nonce \in Nonces :
                /\ _state' = Some(nonce)
                /\ ret' = RetUrl(nonce)
    /\ UNCHANGED <<_token, _refreshToken, whenTokenExpires, isAuthorized,
                   now, exchanged, objectVars, registryVars>>

handleAuthorizationResponse(state, code, error) ==
    /\ op' = "handleAuthorizationResponse"
    /\ args' = [state |-> state, code |-> code, error |-> error]
    /\ IF isAuthorized
         THEN /\ ret' = RetBool(TRUE)
              /\ reqs' = <<>>
              /\ UNCHANGED <<sessionVars, exchanged>>
         ELSE IF StateRefused(state, error)
         THEN /\ ret' = RetBool(FALSE)
              /\ reqs' = <<>>
              /\ UNCHANGED <<sessionVars, exchanged>>
         ELSE \E resp \in TokenResponses :
                /\ _state' = None
                /\ reqs' = <<TokenRequest("authorization_code", code, resp)>>
                /\ IF resp.status_code # 200
                     THEN /\ ret' = RetBool(FALSE)
                          /\ UNCHANGED <<_token, _refreshToken, whenTokenExpires,
                                         exchanged>>
                     ELSE /\ _token' = Some(resp.json[1].access_token)
                          /\ _refreshToken' = Some(resp.json[1].refresh_token)
                          /\ whenTokenExpires' =
                                Some(ExpiryAt(now, resp.json[1].expires_in))
                          /\ exchanged' = TRUE
                          /\ ret' = RetBool(TRUE)
                /\ UNCHANGED isAuthorized
    /\ UNCHANGED <<now, objectVars, registryVars>>

checkAccessToken ==
    /\ op' = "checkAccessToken"
    /\ args' = <<>>
    /\ reqs' = <<>>
    /\ ret' = RetBool(checkAccessTokenAt(_token, whenTokenExpires, now))
    /\ UNCHANGED <<sessionVars, now, exchanged, objectVars, registryVars>>

\* variant of NoRefreshToken that never stops the call
NoRefreshToken_Never(held) == FALSE

\* line 421: refreshToken gives up when no refresh token is held
NoRefreshToken(held) == held = None

\* variant of Refreshed that also takes the refresh token of the answer
Refreshed_Rotates(body, t) ==
    [_token |-> Some(body.access_token),
     whenTokenExpires |-> Some(ExpiryAt(t, body.expires_in)),
     _refreshToken |-> Some(body.refresh_token)]

\* lines 440-442: the answer's access token and lifetime are stored; the
\* refresh token is not assigned
Refreshed(body, t) ==
    [_token |-> Some(body.access_token),
     whenTokenExpires |-> Some(ExpiryAt(t, body.expires_in)),
     _refreshToken |-> _refreshToken]

refreshToken ==
    /\ op' = "refreshToken"
    /\ args' = <<>>
    /\ IF NoRefreshToken(_refreshToken)
         THEN /\ ret' = RetBool(FALSE)
              /\ reqs' = <<>>
              /\ UNCHANGED sessionVars
         ELSE \E resp \in TokenResponses :
                /\ reqs' = <<TokenRequest("refresh_token", _refreshToken, resp)>>
                /\ IF resp.status_code # 200
                     THEN /\ ret' = RetBool(FALSE)
                          /\ UNCHANGED sessionVars
                     ELSE /\ _token' = Refreshed(resp.json[1], now)._token
                          /\ whenTokenExpires' =
                                Refreshed(resp.json[1], now).whenTokenExpires
                          /\ _refreshToken' = Refreshed(resp.json[1], now)._refreshToken
                          /\ ret' = RetBool(TRUE)
                          /\ UNCHANGED <<isAuthorized, _state>>
    /\ UNCHANGED <<now, exchanged, objectVars, registryVars>>

\* the wall clock read by datetime.now(timezone.utc) advances between calls
Tick ==
    /\ now < MaxTime
    /\ now' = now + 1
    /\ UNCHANGED <<sessionVars, exchanged, objectVars, registryVars, callVars>>

----------------------------------------------------------------------------
(* Resource models *)

\* Python values as they appear in a wire dictionary, tagged with their type
PyNone == <<"NoneType">>
PyOf(type, opt) == IF opt = None THEN PyNone ELSE <<type, opt[1]>>
PyList(items) == <<"list", items>>
PyDict(items) == <<"dict", items>>

\* Address.toDict: every key is emitted, whatever its value
AddressToDict(a) ==
    PyDict(<< <<"id", PyOf("int", a.id)>>, <<"etag", PyOf("str", a.etag)>>,
              <<"street", PyOf("str", a.street)>>, <<"city", PyOf("str", a.city)>>,
              <<"province", PyOf("str", a.state)>>,
              <<"postal_code", PyOf("str", a.zipcode)>>,
              <<"country", PyOf("str", a.country)>>,
              <<"name", PyOf("str", a.name)>>,
              <<"primary", PyOf("bool", a.default)>> >>)

\* Email.toDict
EmailToDict(e) ==
    PyDict(<< <<"id", PyOf("int", e.id)>>, <<"etag", PyOf("str", e.etag)>>,
              <<"address", PyOf("str", e.email)>>, <<"name", PyOf("str", e.name)>>,
              <<"primary", PyOf("bool", e.default)>> >>)

\* PhoneNumber.toDict
PhoneNumberToDict(ph) ==
    PyDict(<< <<"id", PyOf("int", ph.id)>>, <<"etag", PyOf("str", ph.etag)>>,
              <<"number", PyOf("str", ph.number)>>, <<"name", PyOf("str", ph.name)>>,
              <<"primary", PyOf("bool", ph.default)>> >>)

\* the dictionary literal of Contact.toDict, in insertion order
ContactDictItems(c) ==
    << <<"id", PyOf("int", c.id)>>, <<"etag", PyOf("str", c.etag)>>,
       <<"firt_name", PyOf("str", c.firstName)>>,
       <<"last_name", PyOf("str", c.lastName)>>,
       <<"type", PyOf("str", c.contactType)>>,
       <<"middle_name", PyOf("str", c.middleName)>>,
       <<"title", PyOf("str", c.title)>>,
       <<"company", PyOf("int", c.company)>>,
       <<"date_of_birth", PyOf("str", c.dob)>>,
       <<"addresses",
         PyList([i \in 1..Len(c.addresses[1]) |-> AddressToDict(c.addresses[1][i])])>>,
       <<"email_addresses",
         PyList([i \in 1..Len(c.emails[1]) |-> EmailToDict(c.emails[1][i])])>>,
       <<"phone_numbers",
         PyList([i \in 1..Len(c.phoneNumbers[1]) |->
                    PhoneNumberToDict(c.phoneNumbers[1][i])])>>,
       <<"custom_field_values",
         PyList([i \in 1..Len(c.customFields[1]) |->
                    PyDict(<< <<"value", c.customFields[1][i][2]>>,
                              <<"custom_field",
                                PyDict(<< <<"id", c.customFields[1][i][1]>> >>)>> >>)])>> >>

\* the pruning loop of Contact.toDict: it iterates dictionary.items() and pops
\* from the dictionary it iterates.  On the first item either the value is
\* None, the key is popped and the iterator then raises RuntimeError
\* (dictionary changed size during iteration), or the value is not None and
\* value.len() raises AttributeError (no int, str, bool or list has a method
\* len).  Only an empty dictionary passes.
PruneDict(items) ==
    IF Len(items) = 0 THEN PyDict(items)
    ELSE IF items[1][2] = PyNone THEN Raise("RuntimeError")
    ELSE Raise("AttributeError")

\* Contact.toDict: iterating a collection that is None raises TypeError,
\* None.items() raises AttributeError, then the dictionary is pruned
ContactToDict(c) ==
    IF c.addresses = None \/ c.emails = None \/ c.phoneNumbers = None
      THEN Raise("TypeError")
    ELSE IF c.customFields = None THEN Raise("AttributeError")
    ELSE PruneDict(ContactDictItems(c))

\* Matter.toDict: the class is not part of clio.py; its wire dictionary holds
\* the fields that are not null
MatterToDict(m) ==
    PyDict(SelectSeq(<< <<"id", PyOf("int", m.id)>>, <<"etag", PyOf("str", m.etag)>> >>,
                     LAMBDA kv : kv[2] # PyNone))

----------------------------------------------------------------------------
(* Create / update protocol *)

\* status codes a resource endpoint answers with
ResourceStatusCodes == {200, 201, 401, 412}

\* response.json()["data"] of a successful write
ResourceBodies == [id : Ids, etag : Etags]

\* an answer of a resource endpoint: a 2xx answer carries the data envelope
ResourceResponses ==
    {[status_code |-> s, json |-> Some(b)] : s \in {200, 201}, b \in ResourceBodies}
      \cup {[status_code |-> s, json |-> None] : s \in ResourceStatusCodes \ {200, 201}}

\* requests.post(url, headers=headers, data=...) as seen on the wire; the
\* header IF-MATCH is None when it is not sent
ResourceRequest(url, ifMatch, data, resp) ==
    [method |-> "POST", url |-> url,
     headers |-> [Authorization |-> _token, IF_MATCH |-> ifMatch],
     data |-> data, response |-> resp]

\* variant of AlreadyExists that looks at the id only
AlreadyExists_IdOnly(obj) == obj.id # None

\* lines 698 / 812: the object already carries an id or an etag
AlreadyExists(obj) == obj.id # None \/ obj.etag # None

\* variant of UpdateRejected that silently repeats the write unconditionally
UpdateRejected_Retry(obj, sent) ==
    [obj |-> obj, ret |-> RetInt(-2),
     reqs |-> sent \o <<[sent[1] EXCEPT !.headers.IF_MATCH = None]>>]

\* lines 744-745 / 858-859: a write that is not answered 200 is reported
\* with -2; the object is left alone and nothing more is sent
UpdateRejected(obj, sent) == [obj |-> obj, ret |-> RetInt(-2), reqs |-> sent]

\* variant of Updated that keeps the etag the object had
Updated_KeepsEtag(obj, body) == obj

\* line 747 / 861: the etag of the answer replaces the object's etag
Updated(obj, body) == [obj EXCEPT !.etag = Some(body.etag)]

\* the body of createContact / createMatter; data is the outcome of
\* obj.toDict(), evaluated as the argument of requests.post
CreateObject(obj, data, collection, resp) ==
    IF AlreadyExists(obj)
      THEN [obj |-> obj, ret |-> RetInt(-1), reqs |-> <<>>]
    ELSE IF data[1] = "raise"
      THEN [obj |-> obj, ret |-> data, reqs |-> <<>>]
    ELSE LET sent == <<ResourceRequest(<<collection>>, None, data, resp)>> IN
         IF resp.status_code # 201
           THEN [obj |-> obj, ret |-> RetInt(-2), reqs |-> sent]
           ELSE [obj |-> [obj EXCEPT !.id = Some(resp.json[1].id),
                                     !.etag = Some(resp.json[1].etag)],
                 ret |-> RetInt(resp.json[1].id),
                 reqs |-> sent]

\* variant of IfMatch that sends the etag with every write
IfMatch_Always(obj, overwrite) == obj.etag

\* lines 739-740 / 853-854: the header IF-MATCH is set to the object's etag
\* unless overwrite is asked for
IfMatch(obj, overwrite) == IF ~overwrite THEN obj.etag ELSE None

\* the body of updateContact / updateMatter
UpdateObject(obj, data, collection, overwrite, resp) ==
    IF obj.id = None
      THEN [obj |-> obj, ret |-> RetInt(-1), reqs |-> <<>>]
    ELSE IF obj.etag = None /\ ~overwrite
      THEN [obj |-> obj, ret |-> RetInt(-3), reqs |-> <<>>]
    ELSE IF data[1] = "raise"
      THEN [obj |-> obj, ret |-> data, reqs |-> <<>>]
    ELSE LET sent == <<ResourceRequest(<<collection, obj.id[1]>>,
                                       IfMatch(obj, overwrite), data, resp)>>
         IN
         IF resp.status_code # 200
           THEN UpdateRejected(obj, sent)
           ELSE [obj |-> Updated(obj, resp.json[1]),
                 ret |-> RetInt(resp.json[1].id),
                 reqs |-> sent]

createContact ==
    \E resp \in ResourceResponses :
      LET r == CreateObject(contact, ContactToDict(contact), "contacts", resp) IN
        /\ op' = "createContact"
        /\ args' = <<>>
        /\ contact' = r.obj
        /\ ret' = r.ret
        /\ reqs' = r.reqs
        /\ UNCHANGED <<sessionVars, now, exchanged, matter, registryVars>>

updateContact(overwrite) ==
    \E resp \in ResourceResponses :
      LET r == UpdateObject(contact, ContactToDict(contact), "contacts", overwrite, resp) IN
        /\ op' = "updateContact"
        /\ args' = [overwrite |-> overwrite]
        /\ contact' = r.obj
        /\ ret' = r.ret
        /\ reqs' = r.reqs
        /\ UNCHANGED <<sessionVars, now, exchanged, matter, registryVars>>

createMatter ==
    \E resp \in ResourceResponses :
      LET r == CreateObject(matter, MatterToDict(matter), "matters", resp) IN
        /\ op' = "createMatter"
        /\ args' = <<>>
        /\ matter' = r.obj
        /\ ret' = r.ret
        /\ reqs' = r.reqs
        /\ UNCHANGED <<sessionVars, now, exchanged, contact, registryVars>>

updateMatter(overwrite) ==
    \E resp \in ResourceResponses :
      LET r == UpdateObject(matter, MatterToDict(matter), "matters", overwrite, resp) IN
        /\ op' = "updateMatter"
        /\ args' = [overwrite |-> overwrite]
        /\ matter' = r.obj
        /\ ret' = r.ret
        /\ reqs' = r.reqs
        /\ UNCHANGED <<sessionVars, now, exchanged, contact, registryVars>>

----------------------------------------------------------------------------
(* Custom action registry and dispatcher *)

\* Clio.CustomAction has the single member GENERATE_DOCUMENT; the second
\* kind (line 16, not yet a member) stands for any other value a caller's set
\* or a stored registry may hold
GENERATE_DOCUMENT == "GENERATE_DOCUMENT"
CustomActions == {GENERATE_DOCUMENT, "IMPORT_MATTER_FROM_GOOGLE_FORMS"}

\* labels the server may hold for an action id ("" when the id is unknown)
Labels == {"Generate Document", "Renamed", ""}

RECURSIVE DistinctKeys(_)
DistinctKeys(d) ==
    Len(d) <= 1 \/ (/\ \A i \in 2..Len(d) : d[i][1] # d[1][1]
                    /\ DistinctKeys(Tail(d)))

\* a dict[int, CustomAction] in insertion order: pairs <<id, kind>>
RegistryDicts ==
    {d \in UNION {[1..n -> Ids \X CustomActions] : n \in 0..MaxId} : DistinctKeys(d)}

DictValues(d) == {d[i][2] : i \in 1..Len(d)}

\* the report dictionary returned by install / remove
Report(success, failed) == <<"report", [success |-> success, failed |-> failed]>>
RetTuple(ok, reason) == <<"tuple", <<ok, reason>>>>

\* returnDict["failed"].add(...) / returnDict["success"].add(...): the
\* values of returnDict are lists, and a list has no method add
ListAdd(list, item) == Raise("AttributeError")

\* lines 879-889: the body of _handleRequest is `pass`, the call returns None
_handleRequest(resp) == RetNone

\* answers of POST custom_actions.json
CustomActionResponses ==
    {[status_code |-> 201, json |-> Some([id |-> i])] : i \in Ids}
      \cup {[status_code |-> 401, json |-> None]}

CustomActionRequest(method, url, resp) ==
    [method |-> method, url |-> url,
     headers |-> [Authorization |-> _token], response |-> resp]

\* dict[key] = value, dict.pop(key)
DictPut(d, key, value) ==
    IF \E i \in 1..Len(d) : d[i][1] = key
      THEN [i \in 1..Len(d) |-> IF d[i][1] = key THEN <<key, value>> ELSE d[i]]
      ELSE Append(d, <<key, value>>)
DictPop(d, key) == SelectSeq(d, LAMBDA kv : kv[1] # key)

\* lines 514-535: the URL is built from self.baseUrl, an attribute the class
\* does not have (it has _baseUrl): AttributeError before the GET is sent
getCustomAction(id) == [out |-> Raise("AttributeError"), reqs |-> <<>>]

\* variant of _installActionGenerateDocument that records an id before it
\* looks at the answer
_installActionGenerateDocument_RecordsFirst(d, resp) ==
    [registry |-> DictPut(d, IF resp.json = None THEN 1 ELSE resp.json[1].id,
                          GENERATE_DOCUMENT),
     out |-> Raise("TypeError"),
     reqs |-> <<CustomActionRequest("POST", <<"custom_actions">>, resp)>>]

\* lines 537-562: POST, then handledReponse[0] on the result of _handleRequest
_installActionGenerateDocument(d, resp) ==
    LET sent == <<CustomActionRequest("POST", <<"custom_actions">>, resp)>>
        handled == _handleRequest(resp)
    IN IF handled = RetNone
         THEN [registry |-> d, out |-> Raise("TypeError"), reqs |-> sent]
       ELSE IF handled[2][1]
         THEN [registry |-> DictPut(d, resp.json[1].id, GENERATE_DOCUMENT),
               out |-> handled, reqs |-> sent]
       ELSE [registry |-> d, out |-> handled, reqs |-> sent]

\* lines 564-592: the first id recorded for generate-document, its remote
\* label, then the DELETE
_removeActionGenerateDocument(d, resp) ==
    LET hits == {i \in 1..Len(d) : d[i][2] = GENERATE_DOCUMENT}
        id == IF hits = {} THEN None
              ELSE Some(d[CHOOSE i \in hits : \A j \in hits : i <= j][1])
        got == getCustomAction(id)
    IN IF got.out[1] = "raise"
         THEN [registry |-> d, out |-> got.out, reqs |-> got.reqs]
       ELSE IF got.out # <<"str", "Generate Document">>
         THEN [registry |-> DictPop(d, id[1]),
               out |-> RetTuple(FALSE, "We have invalid ID for \"Generate Document\" custom action!"),
               reqs |-> got.reqs]
       ELSE LET sent == got.reqs \o
                          <<CustomActionRequest("DELETE", <<"custom_actions", id[1]>>, resp)>>
                handled == _handleRequest(resp)
            IN IF handled = RetNone
                 THEN [registry |-> d, out |-> Raise("TypeError"), reqs |-> sent]
               ELSE IF handled[2][1]
                 THEN [registry |-> DictPop(d, id[1]), out |-> handled, reqs |-> sent]
               ELSE [registry |-> d, out |-> handled, reqs |-> sent]

\* the outcome of one call of install / remove: the registry, the caller's
\* set as the call leaves it, the result and the requests
RegistryOutcome(customActions, d, left, out, sent) ==
    /\ userInstalledCustomActions' = d
    /\ args' = [customActions |-> customActions, left |-> left]
    /\ ret' = out
    /\ reqs' = sent

\* variant of installCustomActions that skips the loop over the installed
\* kinds and records the id of every 201 answer
installCustomActions_NoCheck(customActions) ==
    /\ op' = "installCustomActions"
    /\ IF userInstalledCustomActions = None
         THEN RegistryOutcome(customActions, None, customActions, Raise("AttributeError"), <<>>)
       ELSE IF customActions = {}
         THEN RegistryOutcome(customActions, userInstalledCustomActions, customActions,
                              Report(<<>>, <<>>), <<>>)
       ELSE \E customAction \in customActions, resp \in CustomActionResponses :
              LET d == userInstalledCustomActions[1]
                  sent == <<CustomActionRequest("POST", <<"custom_actions">>, resp)>>
              IN IF resp.status_code = 201
                   THEN RegistryOutcome(customActions,
                          Some(DictPut(d, resp.json[1].id, customAction)), customActions,
                          Report(<<<<customAction, "Installed">>>>, <<>>), sent)
                   ELSE RegistryOutcome(customActions, Some(d), customActions,
                          Report(<<>>, <<<<customAction, "Failed">>>>), sent)
    /\ UNCHANGED <<sessionVars, now, exchanged, objectVars, remoteLabels>>

\* lines 447-477.  Every path that handles a kind ends in an exception: the
\* first loop in list.add, the second in _installActionGenerateDocument or in
\* list.add; only an empty set of kinds reaches the return statement.
installCustomActions(customActions) ==
    /\ op' = "installCustomActions"
    /\ IF userInstalledCustomActions = None
         THEN RegistryOutcome(customActions, None, customActions, Raise("AttributeError"), <<>>)
         ELSE LET d == userInstalledCustomActions[1]
                  hits == {i \in 1..Len(d) : d[i][2] \in customActions}
              IN IF hits # {}
                   THEN LET first == CHOOSE i \in hits : \A j \in hits : i <= j IN
                        RegistryOutcome(customActions, Some(d), customActions \ {d[first][2]},
                                        ListAdd(<<>>, <<d[first][2], "Already installed">>),
                                        <<>>)
                 ELSE IF customActions = {}
                   THEN RegistryOutcome(customActions, Some(d), customActions, Report(<<>>, <<>>), <<>>)
                 ELSE \E customAction \in customActions :
                        IF customAction = GENERATE_DOCUMENT
                          THEN \E resp \in CustomActionResponses :
                                 LET r == _installActionGenerateDocument(d, resp) IN
                                 RegistryOutcome(customActions, Some(r.registry), customActions,
                                   IF r.out[1] = "raise" THEN r.out
                                   ELSE ListAdd(<<>>, <<customAction, r.out[2][2]>>),
                                   r.reqs)
                          ELSE RegistryOutcome(customActions, Some(d), customActions,
                                 ListAdd(<<>>, <<customAction, "Not implemented">>), <<>>)
    /\ UNCHANGED <<sessionVars, now, exchanged, objectVars, remoteLabels>>

\* lines 479-512.  As in install, handling any kind ends in an exception:
\* in getCustomAction for an installed generate-document, in list.add for
\* any other kind, installed or not.
removeCustomActions(customActions) ==
    /\ op' = "removeCustomActions"
    /\ IF userInstalledCustomActions = None
         THEN RegistryOutcome(customActions, None, customActions, Raise("AttributeError"), <<>>)
         ELSE LET d == userInstalledCustomActions[1]
                  hits == {i \in 1..Len(d) : d[i][2] \in customActions}
              IN IF hits # {}
                   THEN LET first == CHOOSE i \in hits : \A j \in hits : i <= j IN
                        IF d[first][2] = GENERATE_DOCUMENT
                          THEN \E resp \in CustomActionResponses :
                                 LET r == _removeActionGenerateDocument(d, resp) IN
                                 RegistryOutcome(customActions, Some(r.registry), customActions,
                                   IF r.out[1] = "raise" THEN r.out
                                   ELSE ListAdd(<<>>, <<d[first][2], r.out[2][2]>>),
                                   r.reqs)
                          ELSE RegistryOutcome(customActions, Some(d), customActions,
                                 ListAdd(<<>>, <<d[first][2], "Not implemented">>), <<>>)
                 ELSE IF customActions = {}
                   THEN RegistryOutcome(customActions, Some(d), customActions, Report(<<>>, <<>>), <<>>)
                 ELSE \E customAction \in customActions :
                        RegistryOutcome(customActions, Some(d), customActions,
                          ListAdd(<<>>, <<customAction, "Not installed">>), <<>>)
    /\ UNCHANGED <<sessionVars, now, exchanged, objectVars, remoteLabels>>

\* how the nonce of a trigger stands with the nonce tracker
NonceStates == {"fresh", "reused", "invalid"}

\* lines 594-610: the body is `pass`: nothing is verified, no handler is
\* called, every request gets None
handleCustomActions(params) ==
    /\ op' = "handleCustomActions"
    /\ args' = params
    /\ ret' = RetNone
    /\ reqs' = <<>>
    /\ UNCHANGED <<sessionVars, now, exchanged, objectVars, registryVars>>

----------------------------------------------------------------------------
(* Session specification *)

\* Clio(clientId, clientSecret, refreshToken=None | token)
InitSession ==
    /\ _token = None
    /\ _refreshToken \in Opt(Tokens)
    /\ whenTokenExpires = None
    /\ isAuthorized = (_refreshToken # None)
    /\ _state = None
    /\ exchanged = FALSE

InitCall ==
    /\ op = "__init__"
    /\ args = <<>>
    /\ ret = RetNone
    /\ reqs = <<>>

NoObjects ==
    /\ contact = None
    /\ matter = None

\* Clio(clientId, clientSecret): userInstalledCustomActions defaults to None
NoRegistry ==
    /\ userInstalledCustomActions = None
    /\ remoteLabels = [id \in Ids |-> ""]

Init ==
    /\ InitSession
    /\ InitCall
    /\ NoObjects
    /\ NoRegistry
    /\ now = 0

Next ==
    \/ getAuthorizationRequestLink
    \/ \E state \in Nonces, code \in Opt(Codes), error \in Opt(Errors) :
          handleAuthorizationResponse(state, code, error)
    \/ checkAccessToken
    \/ refreshToken
    \/ Tick

Spec == Init /\ [][Next]_vars

----------------------------------------------------------------------------
(* Specification for checkAccessToken as a function of the fields it reads: *)
(* _token and the public attribute whenTokenExpires take every combination  *)
(* of values, the clock every position.                                     *)

InitCheckAccessToken ==
    /\ _token \in Opt(Tokens)
    /\ whenTokenExpires \in Opt(0..(MaxTime + MaxExpiresIn))
    /\ now \in Times
    /\ _refreshToken = None
    /\ isAuthorized = FALSE
    /\ _state = None
    /\ exchanged = FALSE
    /\ InitCall
    /\ NoObjects
    /\ NoRegistry

NextCheckAccessToken ==
    \/ checkAccessToken
    \/ Tick

SpecCheckAccessToken == InitCheckAccessToken /\ [][NextCheckAccessToken]_vars

----------------------------------------------------------------------------
(* Claims about the session *)

\* a step that is a call of the client (the clock stands still within a call)
IsCall(name) == op' = name /\ now' = now

\* the token-endpoint answer of the call just made, if it issued a request
Answered(status) == reqs # <<>> /\ reqs[1].response.status_code = status
AnsweredNext(status) == reqs' # <<>> /\ reqs'[1].response.status_code = status

\* C1: in every reachable state of a session, isAuthorized is true if and
\* only if a refresh token is held.
C1_AuthorizedIffRefreshToken == isAuthorized <=> (_refreshToken # None)

\* C2: once a handleAuthorizationResponse has exchanged the code with a 200
\* answer, every later getAuthorizationRequestLink returns None and every
\* later handleAuthorizationResponse returns True without a token request.
C2_AuthorizedAfterExchange ==
    [][exchanged =>
         /\ IsCall("getAuthorizationRequestLink") => ret' = RetNone
         /\ IsCall("handleAuthorizationResponse") =>
                ret' = RetBool(TRUE) /\ reqs' = <<>>]_vars

\* C3: after refreshToken is answered non-200 the session is unauthorized:
\* isAuthorized is false and the next getAuthorizationRequestLink returns an
\* authorization URL.
C3_UnauthorizedAfterFailedRefresh ==
    [][/\ (IsCall("refreshToken") /\ reqs' # <<>> /\ ~AnsweredNext(200))
            => ~isAuthorized'
       /\ (op = "refreshToken" /\ reqs # <<>> /\ ~Answered(200)
             /\ IsCall("getAuthorizationRequestLink"))
            => ret'[1] = "url"]_vars

\* an access token is held and the clock is strictly before the stored expiry
AccessTokenValid ==
    /\ _token # None
    /\ whenTokenExpires # None
    /\ now < whenTokenExpires[1]

\* C4: checkAccessToken returns true iff an access token is held and the
\* current time is strictly before the stored expiry; with no access token
\* it returns false whatever the expiry.
C4_CheckAccessToken ==
    [][IsCall("checkAccessToken") =>
         /\ ret' = RetBool(AccessTokenValid)
         /\ (_token = None => ret' = RetBool(FALSE))]_vars

C4_Witness ==
    /\ op = "checkAccessToken"
    /\ ret = RetBool(TRUE)
    /\ AccessTokenValid

\* C5: on an unauthorized session, handleAuthorizationResponse with an error
\* and an echoed state different from the stored nonce returns False, issues
\* no token request and leaves access token, refresh token, expiry and the
\* stored nonce unchanged.
C5_ErrorWithStateMismatch ==
    [][(/\ IsCall("handleAuthorizationResponse")
        /\ ~isAuthorized
        /\ args'.error # None
        /\ Some(args'.state) # _state)
       => /\ ret' = RetBool(FALSE)
          /\ reqs' = <<>>
          /\ UNCHANGED <<_token, _refreshToken, whenTokenExpires, _state>>]_vars

C5_Witness ==
    /\ op = "handleAuthorizationResponse"
    /\ ~isAuthorized
    /\ args.error # None
    /\ _state # None
    /\ Some(args.state) # _state
    /\ ret = RetBool(FALSE)

\* C6: handleAuthorizationResponse stores tokens exactly when the exchange is
\* answered 200: then the answer's access and refresh token are stored,
\* expiry = now + expires_in and the nonce is cleared; on any other answer it
\* returns False and access token, refresh token and expiry keep their
\* values (as they do when no exchange is made).
C6_TokensStoredOnlyOn200 ==
    [][IsCall("handleAuthorizationResponse") =>
         IF reqs' = <<>>
           THEN UNCHANGED <<_token, _refreshToken, whenTokenExpires>>
           ELSE LET resp == reqs'[1].response IN
                IF resp.status_code = 200
                  THEN /\ _token' = Some(resp.json[1].access_token)
                       /\ _refreshToken' = Some(resp.json[1].refresh_token)
                       /\ whenTokenExpires' = Some(now + resp.json[1].expires_in)
                       /\ ret' = RetBool(TRUE)
                       /\ _state' = None
                  ELSE /\ ret' = RetBool(FALSE)
                       /\ UNCHANGED <<_token, _refreshToken, whenTokenExpires>>]_vars

C6_Witness ==
    /\ op = "handleAuthorizationResponse"
    /\ Answered(200)
    /\ _token = Some(reqs[1].response.json[1].access_token)
    /\ _refreshToken = Some(reqs[1].response.json[1].refresh_token)
    /\ reqs[1].response.json[1].expires_in > 0
    /\ _state = None

----------------------------------------------------------------------------
(* Specification of the create / update protocol: one Contact and one        *)
(* Matter held by the caller, written through a client that holds an access  *)
(* token or none (the methods only copy it into the Authorization header).   *)
(* The two objects are written independently of each other: one of them     *)
(* starts with any id and etag, the other as a new object.  The contact is   *)
(* as its constructor leaves it.                                             *)

\* Contact(firstName, lastName, customFields=..., id=..., etag=...): the
\* constructor leaves addresses, emails and phoneNumbers at the result of
\* _ensureSingleDefault, which is None; a caller may assign lists afterwards
Contacts ==
    {[id |-> i, etag |-> e, firstName |-> Some("A"), lastName |-> Some("B"),
      contactType |-> Some("Person"), middleName |-> None, title |-> None,
      company |-> None, dob |-> None,
      addresses |-> l, emails |-> l, phoneNumbers |-> l, customFields |-> cf] :
        i \in Opt(Ids), e \in Opt(Etags),
        l \in {None, Some(<<>>)}, cf \in {None, Some(<<>>)}}

\* Contact(firstName, lastName)
FreshContact ==
    CHOOSE c \in Contacts :
       /\ c.id = None /\ c.etag = None
       /\ c.addresses = None /\ c.customFields = None

Matters == [id : Opt(Ids), etag : Opt(Etags)]

InitCrud ==
    /\ _token \in Opt({1})
    /\ _refreshToken = None
    /\ whenTokenExpires = None
    /\ isAuthorized = FALSE
    /\ _state = None
    /\ exchanged = FALSE
    /\ now = 0
    /\ \/ /\ contact \in {c \in Contacts : c.addresses = None /\ c.customFields = None}
          /\ matter = [id |-> None, etag |-> None]
       \/ contact = FreshContact /\ matter \in Matters
    /\ NoRegistry
    /\ InitCall

NextCrud ==
    \/ createContact
    \/ \E overwrite \in BOOLEAN : updateContact(overwrite)
    \/ createMatter
    \/ \E overwrite \in BOOLEAN : updateMatter(overwrite)

SpecCrud == InitCrud /\ [][NextCrud]_vars

----------------------------------------------------------------------------
(* Claims about the create / update protocol *)

CarriesIdOrEtag(obj) == obj.id # None \/ obj.etag # None
IsSentinel(r) == r[1] = "int" /\ r[2] < 0

\* create on an object that carries an id or an etag
CreateRefused(name, obj, objNext) ==
    (IsCall(name) /\ CarriesIdOrEtag(obj))
       => ret' = RetInt(-1) /\ reqs' = <<>> /\ objNext = obj

\* a create directly after a successful create of the same object
SecondCreateLocal(name) ==
    (op = name /\ Answered(201) /\ IsCall(name)) => reqs' = <<>>

\* C7: createContact / createMatter on an object that already carries an id
\* or an etag returns -1, issues no request and leaves the object unchanged;
\* a second create on an object just created never reaches the server.
C7_CreateRefusedWhenExists ==
    [][/\ CreateRefused("createContact", contact, contact')
       /\ CreateRefused("createMatter", matter, matter')
       /\ SecondCreateLocal("createContact")
       /\ SecondCreateLocal("createMatter")]_vars

C7_Witness ==
    /\ op = "createContact"
    /\ contact.id = None
    /\ contact.etag # None
    /\ ret = RetInt(-1)
    /\ reqs = <<>>

\* create on an object with no id and no etag: the two outcomes of the call
CreateOutcome(name, obj, objNext) ==
    (IsCall(name) /\ ~CarriesIdOrEtag(obj))
       => \/ /\ AnsweredNext(201)
             /\ objNext.id = Some(reqs'[1].response.json[1].id)
             /\ objNext.etag = Some(reqs'[1].response.json[1].etag)
             /\ ret' = RetInt(reqs'[1].response.json[1].id)
          \/ /\ reqs' # <<>>
             /\ ~AnsweredNext(201)
             /\ IsSentinel(ret')
             /\ ret' # RetInt(-1)
             /\ ~CarriesIdOrEtag(objNext)

\* C8: createContact / createMatter on an object with no id and no etag: on
\* 201 the server's id and etag are written onto the object and the id is
\* returned; on every other status a negative sentinel other than -1 is
\* returned and id and etag stay unset.
C8_CreateOutcomes ==
    [][/\ CreateOutcome("createContact", contact, contact')
       /\ CreateOutcome("createMatter", matter, matter')]_vars

\* update: the local precondition failures and the unconditional write
UpdatePreconditions(name, obj, objNext) ==
    IsCall(name) =>
       /\ obj.id = None
            => ret' = RetInt(-1) /\ reqs' = <<>> /\ objNext = obj
       /\ (obj.id # None /\ obj.etag = None /\ ~args'.overwrite)
            => ret' = RetInt(-3) /\ reqs' = <<>> /\ objNext = obj
       /\ (obj.id # None /\ obj.etag = None /\ args'.overwrite)
            => Len(reqs') = 1 /\ reqs'[1].method = "POST"

\* C9: updateContact / updateMatter with no id return the missing-id
\* sentinel, with id set, etag unset and overwrite=false the different
\* missing-etag sentinel, both without a request and with the object
\* unchanged; the same object with overwrite=true does issue the write.
C9_UpdatePreconditions ==
    [][/\ UpdatePreconditions("updateContact", contact, contact')
       /\ UpdatePreconditions("updateMatter", matter, matter')]_vars

\* a conditional update answered 412 Precondition Failed
ConflictSurfaced(name, obj, objNext) ==
    (IsCall(name) /\ ~args'.overwrite /\ AnsweredNext(412))
       => /\ IsSentinel(ret')
          /\ Len(reqs') = 1
          /\ objNext.etag = obj.etag
          /\ objNext.id = obj.id

\* C10: a conditional update (overwrite=false) answered with a precondition
\* failure returns a negative result, issues no second request within the
\* call and leaves the object's etag and id unchanged.
C10_ConflictSurfaced ==
    [][/\ ConflictSurfaced("updateContact", contact, contact')
       /\ ConflictSurfaced("updateMatter", matter, matter')]_vars

C10_Witness ==
    /\ op = "updateMatter"
    /\ ~args.overwrite
    /\ Answered(412)
    /\ reqs[1].headers.IF_MATCH = matter.etag
    /\ matter.etag # None
    /\ ret = RetInt(-2)

\* the etag of an object across one create or update call
EtagFollowsWrites(createName, updateName, obj, objNext) ==
    /\ (IsCall(createName) \/ IsCall(updateName))
         => IF \/ IsCall(createName) /\ AnsweredNext(201)
               \/ IsCall(updateName) /\ AnsweredNext(200)
              THEN objNext.etag = Some(reqs'[1].response.json[1].etag)
              ELSE objNext.etag = obj.etag
    /\ (IsCall(updateName) /\ reqs' # <<>> /\ ~args'.overwrite)
         => reqs'[1].headers.IF_MATCH = obj.etag

\* C11: across create and update calls the object's etag becomes the etag of
\* the answer of every successful write and is left alone by every failed
\* one, and a conditional update sends the etag the object holds.
C11_EtagFollowsWrites ==
    [][/\ EtagFollowsWrites("createContact", "updateContact", contact, contact')
       /\ EtagFollowsWrites("createMatter", "updateMatter", matter, matter')]_vars

C11_Witness ==
    /\ op = "updateMatter"
    /\ Answered(200)
    /\ ~args.overwrite
    /\ reqs[1].headers.IF_MATCH # Some(reqs[1].response.json[1].etag)
    /\ matter.etag = Some(reqs[1].response.json[1].etag)

----------------------------------------------------------------------------
(* Specification of the custom action registry: a client constructed with   *)
(* a stored registry or with none, and a server holding a label per id.     *)

InitRegistry ==
    /\ _token \in Opt({1})
    /\ _refreshToken = None
    /\ whenTokenExpires = None
    /\ isAuthorized = FALSE
    /\ _state = None
    /\ exchanged = FALSE
    /\ now = 0
    /\ NoObjects
    /\ InitCall
    /\ userInstalledCustomActions \in Opt(RegistryDicts)
    /\ remoteLabels \in [Ids -> Labels]

NextRegistry ==
    \/ \E customActions \in SUBSET CustomActions : installCustomActions(customActions)
    \/ \E customActions \in SUBSET CustomActions : removeCustomActions(customActions)
    \/ \E id \in Ids, nonce \in NonceStates :
          handleCustomActions([custom_action_id |-> id, custom_action_nonce |-> nonce])

SpecRegistry == InitRegistry /\ [][NextRegistry]_vars

----------------------------------------------------------------------------
(* Claims about the custom action registry and the dispatcher *)

IsReport(r) == r[1] = "report"
ReportedFailed(r, kind, reason) ==
    IsReport(r) /\ \E i \in DOMAIN r[2].failed : r[2].failed[i] = <<kind, reason>>
ReportedFailedFor(r, kind) ==
    IsReport(r) /\ \E i \in DOMAIN r[2].failed : r[2].failed[i][1] = kind
Sent(method) == {i \in DOMAIN reqs' : reqs'[i].method = method}

\* the id under which the registry records generate-document first
RecordedId(d) ==
    d[CHOOSE i \in DOMAIN d :
         /\ d[i][2] = GENERATE_DOCUMENT
         /\ \A j \in DOMAIN d : d[j][2] = GENERATE_DOCUMENT => i <= j][1]

\* a removeCustomActions call that has to handle a recorded generate-document
RemovesRecorded ==
    /\ IsCall("removeCustomActions")
    /\ userInstalledCustomActions # None
    /\ GENERATE_DOCUMENT \in DictValues(userInstalledCustomActions[1])
    /\ GENERATE_DOCUMENT \in args'.customActions

\* C12: installCustomActions reports every desired kind that the registry
\* already holds as failed with reason "Already installed", sends no install
\* request for it and leaves the registry unchanged; only the kinds not yet
\* in the registry go to an installer.
C12_AlreadyInstalledReported ==
    [][(IsCall("installCustomActions") /\ userInstalledCustomActions # None) =>
         LET installed == DictValues(userInstalledCustomActions[1]) IN
         /\ \A kind \in args'.customActions \cap installed :
               /\ ReportedFailed(ret', kind, "Already installed")
               /\ userInstalledCustomActions' = userInstalledCustomActions
         /\ Cardinality(Sent("POST")) <= Cardinality(args'.customActions \ installed)]_vars

\* C13: when the remote label of the recorded id is not "Generate Document",
\* removeCustomActions removes the local record, sends no DELETE and reports
\* the kind as failed.
C13_StaleRecordPurged ==
    [][(/\ RemovesRecorded
        /\ remoteLabels[RecordedId(userInstalledCustomActions[1])] # "Generate Document")
       => /\ userInstalledCustomActions' =
                Some(DictPop(userInstalledCustomActions[1],
                             RecordedId(userInstalledCustomActions[1])))
          /\ Sent("DELETE") = {}
          /\ ReportedFailedFor(ret', GENERATE_DOCUMENT)]_vars

\* C14: when the remote label matches, removeCustomActions sends the DELETE
\* and removes the local record if and only if the DELETE succeeds; after a
\* failed DELETE the record is kept and the kind is reported as failed.
C14_RecordRemovedIffDeleted ==
    [][(/\ RemovesRecorded
        /\ remoteLabels[RecordedId(userInstalledCustomActions[1])] = "Generate Document")
       => /\ Cardinality(Sent("DELETE")) = 1
          /\ \A i \in Sent("DELETE") :
               IF reqs'[i].response.status_code \in 200..299
                 THEN userInstalledCustomActions' =
                        Some(DictPop(userInstalledCustomActions[1],
                                     RecordedId(userInstalledCustomActions[1])))
                 ELSE /\ userInstalledCustomActions' = userInstalledCustomActions
                      /\ ReportedFailedFor(ret', GENERATE_DOCUMENT)]_vars

\* C15: every public operation ends by returning its flag, sentinel or
\* report; none ends by raising, whatever the session, the registry (a
\* client constructed without one included) and the server's answer.
C15_NoOperationAborts == ret[1] # "raise"

\* a refusal the caller can see: None is what the dispatcher returns for
\* every request, so it refuses nothing
Rejected(r) == r # RetNone

\* C16: handleCustomActions rejects, without invoking a handler, every
\* request whose nonce is invalid or reused or whose custom_action_id is not
\* a key of the registry.
C16_BadTriggerRejected ==
    [][(/\ IsCall("handleCustomActions")
        /\ \/ args'.custom_action_nonce # "fresh"
           \/ userInstalledCustomActions = None
           \/ \A i \in DOMAIN userInstalledCustomActions[1] :
                 userInstalledCustomActions[1][i][1] # args'.custom_action_id)
       => Rejected(ret')]_vars

----------------------------------------------------------------------------
(* Resource objects: construction, serialisation, deserialisation *)

\* longest list of addresses, e-mails or phone numbers given to a Contact
MaxItems == 3

\* Address(...), Email(...), PhoneNumber(...): the constructors normalise
\* name to one of their labels and take id and etag when given
Addresses ==
    [id : Opt(Ids), etag : Opt(Etags), street : {Some("1 Main St")},
     city : {Some("Salem")}, state : {Some("OR")}, zipcode : {Some("97301")},
     country : {Some("US")}, name : {Some("Home")},
     default : {Some(TRUE), Some(FALSE)}]
Emails ==
    [id : Opt(Ids), etag : Opt(Etags), email : {Some("a@x.org")},
     name : {Some("Home")}, default : {Some(TRUE), Some(FALSE)}]
PhoneNumbers ==
    [id : Opt(Ids), etag : Opt(Etags), number : {Some("555")},
     name : {Some("Home")}, default : {Some(TRUE), Some(FALSE)}]

Objects(type) ==
    CASE type = "Address" -> Addresses
      [] type = "Email" -> Emails
      [] type = "PhoneNumber" -> PhoneNumbers

\* an object constructed with other values and the defaults of the
\* constructor: no id, no etag, name "Other", isDefault True
Fresh(type) ==
    CASE type = "Address" ->
           [id |-> None, etag |-> None, street |-> Some("2 Elm St"),
            city |-> Some("Bend"), state |-> Some("WA"), zipcode |-> Some("98001"),
            country |-> Some("CA"), name |-> Some("Other"), default |-> Some(TRUE)]
      [] type = "Email" ->
           [id |-> None, etag |-> None, email |-> Some("b@y.org"),
            name |-> Some("Other"), default |-> Some(TRUE)]
      [] type = "PhoneNumber" ->
           [id |-> None, etag |-> None, number |-> Some("777"),
            name |-> Some("Other"), default |-> Some(TRUE)]

\* the lists a caller passes as addresses, emails or phoneNumbers: objects
\* that are not persisted yet
ItemLists(type) ==
    UNION {[1..n -> {o \in Objects(type) : o.id = None /\ o.etag = None}] :
             n \in 0..MaxItems}

\* Contact._ensureSingleDefault(items): the body is `pass`; it returns None
\* and changes nothing in the list it was given
_ensureSingleDefault(items) == [out |-> None, items |-> items]

\* a contact with every optional argument given and its lists assigned
\* after construction
PopulatedContacts ==
    {[c EXCEPT !.middleName = Some("M"), !.title = Some("Dr"), !.company = Some(1),
               !.dob = Some("2000-01-01"),
               !.addresses = Some(<<Fresh("Address")>>),
               !.emails = Some(<<Fresh("Email")>>),
               !.phoneNumbers = Some(<<Fresh("PhoneNumber")>>),
               !.customFields = Some(<< <<1, "v">> >>)] : c \in Contacts}

\* dict.get(key, default) and dict[key] on a wire dictionary, read back as a
\* field value
FromPy(v) == IF v = PyNone THEN None ELSE Some(v[2])
HasKey(d, key) == \E i \in DOMAIN d[2] : d[2][i][1] = key
DictItem(d, key) == FromPy(d[2][CHOOSE i \in DOMAIN d[2] : d[2][i][1] = key][2])

\* variant of DictGet that gives None for a key the dictionary lacks
DictGet_NullsAbsent(d, key, default) == IF HasKey(d, key) THEN DictItem(d, key) ELSE None

\* dict.get(key, default)
DictGet(d, key, default) == IF HasKey(d, key) THEN DictItem(d, key) ELSE default

\* the object after a call of updateFromDict and how the call ended
Returned(self) == [self |-> self, out |-> RetNone]
Raised(self, error) == [self |-> self, out |-> Raise(error)]

\* variant of FillIdAndEtag that takes id and etag from the dictionary
\* whether or not they are set
FillIdAndEtag_Overwrites(self, d) ==
    IF ~HasKey(d, "id") \/ ~HasKey(d, "etag") THEN Raised(self, "KeyError")
    ELSE Returned([self EXCEPT !.id = DictItem(d, "id"), !.etag = DictItem(d, "etag")])

\* the branch `if not updateExisting` shared by the three sub-objects: only an
\* id or etag that is still None is taken from the dictionary, by subscript,
\* which raises KeyError when the dictionary lacks the key
FillIdAndEtag(self, d) ==
    IF self.id = None /\ ~HasKey(d, "id") THEN Raised(self, "KeyError")
    ELSE LET withId == IF self.id = None THEN [self EXCEPT !.id = DictItem(d, "id")]
                       ELSE self
         IN IF withId.etag = None /\ ~HasKey(d, "etag") THEN Raised(withId, "KeyError")
            ELSE IF withId.etag = None
              THEN Returned([withId EXCEPT !.etag = DictItem(d, "etag")])
            ELSE Returned(withId)

AddressUpdateFromDict(self, d, updateExisting) ==
    IF ~updateExisting THEN FillIdAndEtag(self, d)
    ELSE Returned(
         [id |-> DictGet(d, "id", self.id), etag |-> DictGet(d, "etag", self.etag),
          street |-> DictGet(d, "street", self.street),
          city |-> DictGet(d, "city", self.city),
          state |-> DictGet(d, "province", self.state),
          zipcode |-> DictGet(d, "postal_code", self.zipcode),
          country |-> DictGet(d, "country", self.country),
          name |-> DictGet(d, "name", self.name),
          default |-> DictGet(d, "primary", self.default)])

EmailUpdateFromDict(self, d, updateExisting) ==
    IF ~updateExisting THEN FillIdAndEtag(self, d)
    ELSE Returned(
         [id |-> DictGet(d, "id", self.id), etag |-> DictGet(d, "etag", self.etag),
          email |-> DictGet(d, "address", self.email),
          name |-> DictGet(d, "name", self.name),
          default |-> DictGet(d, "primary", self.default)])

PhoneNumberUpdateFromDict(self, d, updateExisting) ==
    IF ~updateExisting THEN FillIdAndEtag(self, d)
    ELSE Returned(
         [id |-> DictGet(d, "id", self.id), etag |-> DictGet(d, "etag", self.etag),
          number |-> DictGet(d, "number", self.number),
          name |-> DictGet(d, "name", self.name),
          default |-> DictGet(d, "primary", self.default)])

\* Contact.updateFromDict(clioContactDict): the method breaks off after
\* `for addressDict in clioContactDict["addresses"]:`; the one dictionary
\* Contact.toDict can return is empty, and subscripting it raises KeyError
ContactUpdateFromDict(self, d) ==
    IF HasKey(d, "addresses") THEN Raised(self, "SyntaxError") ELSE Raised(self, "KeyError")

RetObject(o) == <<"object", o>>

\* Contact(firstName, lastName, <kind>=items)
ContactInit(kind, items) ==
    /\ op' = "Contact.__init__"
    /\ args' = [kind |-> kind, given |-> items,
                items |-> IF items = None THEN None
                          ELSE Some(_ensureSingleDefault(items[1]).items)]
    /\ contact' =
         [[id |-> None, etag |-> None, firstName |-> Some("A"), lastName |-> Some("B"),
           contactType |-> Some("Person"), middleName |-> None, title |-> None,
           company |-> None, dob |-> None,
           addresses |-> _ensureSingleDefault(None).out,
           emails |-> _ensureSingleDefault(None).out,
           phoneNumbers |-> _ensureSingleDefault(None).out,
           customFields |-> None]
          EXCEPT ![kind] = _ensureSingleDefault(IF items = None THEN None ELSE items[1]).out]
    /\ ret' = RetNone
    /\ UNCHANGED <<sessionVars, now, exchanged, matter, reqs, registryVars>>

\* self.toDict()
toDict(type, self) ==
    /\ op' = "toDict"
    /\ args' = [type |-> type, self |-> self]
    /\ ret' = CASE type = "Address" -> AddressToDict(self)
                [] type = "Email" -> EmailToDict(self)
                [] type = "PhoneNumber" -> PhoneNumberToDict(self)
                [] type = "Contact" -> ContactToDict(self)
    /\ UNCHANGED <<sessionVars, now, exchanged, objectVars, reqs, registryVars>>

\* source.toDict()
ToDictOf(type, source) ==
    CASE type = "Address" -> AddressToDict(source)
      [] type = "Email" -> EmailToDict(source)
      [] type = "PhoneNumber" -> PhoneNumberToDict(source)
      [] type = "Contact" -> ContactToDict(source)

\* a dictionary of the API that lacks one field of the wire format
Without(d, dropped) ==
    IF dropped = None THEN d
    ELSE PyDict(SelectSeq(d[2], LAMBDA kv : kv[1] # dropped[1]))

UpdateFromDictOf(type, self, d, updateExisting) ==
    CASE type = "Address" -> AddressUpdateFromDict(self, d, updateExisting)
      [] type = "Email" -> EmailUpdateFromDict(self, d, updateExisting)
      [] type = "PhoneNumber" -> PhoneNumberUpdateFromDict(self, d, updateExisting)
      [] type = "Contact" -> ContactUpdateFromDict(self, d)

\* self.updateFromDict(d, updateExisting) where d is source.toDict(), as it
\* is or without one key: the argument is evaluated first, so an exception
\* of toDict ends the statement.  The method changes self in place; args
\* keeps self as it was, `after` is self after the call
updateFromDict(type, self, source, dropped, updateExisting) ==
    /\ op' = "updateFromDict"
    /\ LET data == ToDictOf(type, source) IN
       IF data[1] = "raise"
         THEN /\ args' = [type |-> type, self |-> self, source |-> source,
                          dropped |-> dropped, updateExisting |-> updateExisting,
                          dict |-> data, after |-> self]
              /\ ret' = data
         ELSE LET d == Without(data, dropped)
                  r == UpdateFromDictOf(type, self, d, updateExisting)
              IN /\ args' = [type |-> type, self |-> self, source |-> source,
                             dropped |-> dropped, updateExisting |-> updateExisting,
                             dict |-> d, after |-> r.self]
                 /\ ret' = IF r.out = RetNone THEN RetObject(r.self) ELSE r.out
    /\ UNCHANGED <<sessionVars, now, exchanged, objectVars, reqs, registryVars>>

SubObjectTypes == {"Address", "Email", "PhoneNumber"}
ListKinds == [Address |-> "addresses", Email |-> "emails", PhoneNumber |-> "phoneNumbers"]

InitModels ==
    /\ _token = None
    /\ _refreshToken = None
    /\ whenTokenExpires = None
    /\ isAuthorized = FALSE
    /\ _state = None
    /\ exchanged = FALSE
    /\ now = 0
    /\ NoObjects
    /\ NoRegistry
    /\ InitCall

NextModels ==
    \/ \E type \in SubObjectTypes : \E items \in Opt(ItemLists(type)) :
          ContactInit(ListKinds[type], items)
    \/ \E type \in SubObjectTypes : \E self \in Objects(type) : toDict(type, self)
    \/ \E self \in Contacts \cup PopulatedContacts : toDict("Contact", self)
    \/ \E type \in SubObjectTypes : \E source \in Objects(type) :
         \E updateExisting \in BOOLEAN :
            updateFromDict(type, Fresh(type), source, None, updateExisting)
    \/ \E source \in Contacts \cup PopulatedContacts :
          updateFromDict("Contact", FreshContact, source, None, TRUE)

SpecModels == InitModels /\ [][NextModels]_vars

----------------------------------------------------------------------------
(* Claims about the resource objects *)

Defaults(items) == {i \in DOMAIN items : items[i].default = Some(TRUE)}

\* C17: after a Contact is constructed with a list that marks two or more
\* entries default, the contact holds the same entries in the same order,
\* and exactly one of them is default: the first that was marked default.
C17_FirstDefaultKept ==
    [][(/\ IsCall("Contact.__init__")
        /\ args'.given # None
        /\ Cardinality(Defaults(args'.given[1])) >= 2)
       => LET given == args'.given[1]
              held == contact'[args'.kind]
          IN /\ held # None
             /\ args'.items = held
             /\ Len(held[1]) = Len(given)
             /\ \A i \in DOMAIN given :
                   /\ held[1][i] = [given[i] EXCEPT !.default = held[1][i].default]
                   /\ held[1][i].default = Some(TRUE)
                        <=> \A j \in Defaults(given) : i <= j]_vars

NonNullFields(self) == {f \in DOMAIN self : self[f] # None}

C19_RoundTrip ==
    [][(/\ IsCall("updateFromDict")
        /\ args'.updateExisting
        /\ NonNullFields(args'.source) = DOMAIN args'.source)
       => ret' = RetObject(args'.source)]_vars

----------------------------------------------------------------------------
(* translate_io: input dictionary -> template fields *)

\* longest list of candidate input keys of one output key
MaxCandidates == 2

InputKeys == {"a", "b"}
CandidateKeys == InputKeys \cup {"c"}
OutputKeys == {"k1", "k2"}
InputValues == {<<"int", 2>>, <<"str", "x">>, <<"str", "">>}

\* dictionaries as functions on their keys
InputDicts == UNION {[keys -> InputValues] : keys \in SUBSET InputKeys}
CandidateLists == UNION {[1..n -> CandidateKeys] : n \in 0..MaxCandidates}
Mappings == UNION {[keys -> CandidateLists] : keys \in SUBSET OutputKeys}

Digits == <<"0", "1", "2", "3", "4", "5", "6", "7", "8", "9">>
RECURSIVE Decimal(_)
Decimal(n) == IF n < 10 THEN Digits[n + 1] ELSE Decimal(n \div 10) \o Digits[(n % 10) + 1]

\* str(value)
str(v) ==
    CASE v[1] = "str" -> v[2]
      [] v[1] = "int" -> IF v[2] < 0 THEN "-" \o Decimal(0 - v[2]) ELSE Decimal(v[2])
      [] v[1] = "NoneType" -> "None"

\* the inner loop over mapping[outputKey]: the first key found in the input
\* sets the output and breaks
RECURSIVE InnerLoop_NoBreak(_, _)
InnerLoop_NoBreak(candidates, input) ==
    IF candidates = <<>> THEN None
    ELSE IF InnerLoop_NoBreak(Tail(candidates), input) # None
           THEN InnerLoop_NoBreak(Tail(candidates), input)
    ELSE IF Head(candidates) \in DOMAIN input THEN Some(str(input[Head(candidates)]))
    ELSE None
RECURSIVE InnerLoop(_, _)
InnerLoop(candidates, input) ==
    IF candidates = <<>> THEN None
    ELSE IF Head(candidates) \in DOMAIN input THEN Some(str(input[Head(candidates)]))
    ELSE InnerLoop(Tail(candidates), input)

\* translate_io(input, mapping) for a mapping given as a dictionary
translate_io(input, mapping) ==
    [outputKey \in DOMAIN mapping |->
        IF InnerLoop(mapping[outputKey], input) = None THEN ""
        ELSE InnerLoop(mapping[outputKey], input)[1]]

RetDict(d) == <<"dict", d>>

CallTranslateIo ==
    /\ op' = "translate_io"
    /\ ret' = RetDict(translate_io(args.input, args.mapping))
    /\ UNCHANGED <<sessionVars, now, exchanged, objectVars, registryVars, args, reqs>>

InitTranslate ==
    /\ _token = None
    /\ _refreshToken = None
    /\ whenTokenExpires = None
    /\ isAuthorized = FALSE
    /\ _state = None
    /\ exchanged = FALSE
    /\ now = 0
    /\ NoObjects
    /\ NoRegistry
    /\ op = "__init__"
    /\ args \in [input : InputDicts, mapping : Mappings]
    /\ ret = RetNone
    /\ reqs = <<>>

NextTranslate == CallTranslateIo

SpecTranslate == InitTranslate /\ [][NextTranslate]_vars

\* positions of the candidates that are keys of the input
Present(candidates, input) == {i \in DOMAIN candidates : candidates[i] \in DOMAIN input}

----------------------------------------------------------------------------
(* Specification of resource calls on a client with a session: the access    *)
(* token may be absent or expired and a refresh token may be held.           *)

InitRefresh ==
    /\ _token \in Opt(Tokens)
    /\ _refreshToken \in Opt(Tokens)
    /\ whenTokenExpires \in Opt(Times)
    /\ isAuthorized = (_refreshToken # None)
    /\ _state = None
    /\ exchanged = FALSE
    /\ now = 0
    /\ contact = FreshContact
    /\ matter \in Matters
    /\ NoRegistry
    /\ InitCall

NextRefresh ==
    \/ createContact
    \/ \E overwrite \in BOOLEAN : updateContact(overwrite)
    \/ createMatter
    \/ \E overwrite \in BOOLEAN : updateMatter(overwrite)
    \/ refreshToken

SpecRefresh == InitRefresh /\ [][NextRefresh]_vars

ResourceCalls == {"createContact", "updateContact", "createMatter", "updateMatter"}

\* a request to the token endpoint among the requests of the call
RefreshAttempted == \E i \in DOMAIN reqs' : "grant_type" \in DOMAIN reqs'[i]

\* C21: on a client that holds a refresh token, a resource call that gets
\* its request answered 401, or that starts while checkAccessToken is false,
\* attempts a refresh before it reports the outcome of its request.
C21_RefreshBeforeOutcome ==
    [][(/\ \E name \in ResourceCalls : IsCall(name)
        /\ _refreshToken # None
        /\ reqs' # <<>>
        /\ \/ reqs'[1].response.status_code = 401
           \/ ~checkAccessTokenAt(_token, whenTokenExpires, now))
       => RefreshAttempted]_vars

----------------------------------------------------------------------------
(* Further claims about the session *)

\* C22: refreshToken called while no refresh token is held returns False,
\* sends no request to the token endpoint and leaves the access token, the
\* expiry and isAuthorized unchanged.
C22_RefreshWithoutToken ==
    [][(IsCall("refreshToken") /\ _refreshToken = None)
       => /\ ret' = RetBool(FALSE)
          /\ reqs' = <<>>
          /\ UNCHANGED <<_token, whenTokenExpires, isAuthorized>>]_vars

C22_Witness ==
    /\ op = "refreshToken"
    /\ _refreshToken = None
    /\ ret = RetBool(FALSE)
    /\ reqs = <<>>

\* C24: a refreshToken answered 200 stores the access token of the answer
\* and the expiry now + expires_in, and leaves the refresh token and
\* isAuthorized unchanged; when expires_in > 0 the access token is valid
\* right after the call.
C24_SuccessfulRefresh ==
    [][(IsCall("refreshToken") /\ AnsweredNext(200))
       => LET body == reqs'[1].response.json[1] IN
          /\ ret' = RetBool(TRUE)
          /\ _token' = Some(body.access_token)
          /\ whenTokenExpires' = Some(now + body.expires_in)
          /\ UNCHANGED <<_refreshToken, isAuthorized>>
          /\ body.expires_in > 0 => AccessTokenValid']_vars

\* a refresh that replaced an older access token by a different one
C24_Witness ==
    /\ op = "refreshToken"
    /\ Answered(200)
    /\ reqs[1].response.json[1].expires_in > 0
    /\ reqs[1].response.json[1].refresh_token # reqs[1].credential[1]
    /\ _token = Some(reqs[1].response.json[1].access_token)
    /\ _refreshToken = reqs[1].credential
    /\ AccessTokenValid

\* C23: a callback whose echoed state differs from the stored nonce (none
\* stored included), with or without an error parameter, makes no token
\* exchange and stores no tokens.
C23_StateMismatchNeverExchanges ==
    [][(IsCall("handleAuthorizationResponse") /\ Some(args'.state) # _state)
       => /\ reqs' = <<>>
          /\ UNCHANGED <<_token, _refreshToken, whenTokenExpires>>]_vars

----------------------------------------------------------------------------
(* Further claims about the create / update protocol *)

\* the headers of every request of an update call carry IF-MATCH = expected
IfMatchIs(name, expected) ==
    IsCall(name) => \A i \in DOMAIN reqs' : reqs'[i].headers.IF_MATCH = expected

\* C25: every write request of updateContact / updateMatter carries the
\* object's current etag in its If-Match header when overwrite is false, and
\* no If-Match header when overwrite is true, whether or not the object
\* holds an etag.
C25_IfMatchUnlessOverwrite ==
    [][/\ IfMatchIs("updateContact", IF args'.overwrite THEN None ELSE contact.etag)
       /\ IfMatchIs("updateMatter", IF args'.overwrite THEN None ELSE matter.etag)]_vars

\* an overwriting update of an object that holds an etag, sent without it
C25_Witness ==
    /\ op = "updateMatter"
    /\ args.overwrite
    /\ reqs # <<>>
    /\ reqs[1].response.status_code = 412
    /\ matter.etag # None
    /\ reqs[1].headers.IF_MATCH = None

----------------------------------------------------------------------------
(* Further claims about the custom action registry *)

\* the entries of a report list that name the kind
EntriesFor(list, kind) == {i \in DOMAIN list : list[i][1] = kind}

\* C26: installCustomActions returns a report in which every kind of the
\* desired set occurs exactly once, in the success list or in the failed
\* list, for every registry and every answer of the server.
C26_EveryKindReportedOnce ==
    [][(IsCall("installCustomActions") /\ userInstalledCustomActions # None)
       => /\ IsReport(ret')
          /\ \A kind \in args'.customActions :
               Cardinality(EntriesFor(ret'[2].success, kind))
                 + Cardinality(EntriesFor(ret'[2].failed, kind)) = 1]_vars

Succeeded(i) == reqs'[i].response.status_code \in 200..299

\* C27: the registry changes only by a record id -> kind for the id a
\* successful install request returned, or by dropping a record after a
\* successful DELETE or a label mismatch; an install request or a DELETE
\* that failed leaves the registry as it was.
C27_RegistryLifecycle ==
    [][/\ userInstalledCustomActions' # userInstalledCustomActions
          => /\ userInstalledCustomActions # None
             /\ LET d == userInstalledCustomActions[1] IN
                \/ /\ IsCall("installCustomActions")
                   /\ \E i \in Sent("POST") :
                        /\ Succeeded(i)
                        /\ userInstalledCustomActions' =
                             Some(DictPut(d, reqs'[i].response.json[1].id,
                                          GENERATE_DOCUMENT))
                \/ /\ RemovesRecorded
                   /\ userInstalledCustomActions' = Some(DictPop(d, RecordedId(d)))
                   /\ \/ \E i \in Sent("DELETE") : Succeeded(i)
                      \/ /\ remoteLabels[RecordedId(d)] # "Generate Document"
                         /\ Sent("DELETE") = {}
       /\ (/\ IsCall("installCustomActions") \/ IsCall("removeCustomActions")
           /\ \E i \in Sent("POST") \cup Sent("DELETE") : ~Succeeded(i))
          => userInstalledCustomActions' = userInstalledCustomActions]_vars

\* an install request that the server refused, and no record made for it
C27_Witness ==
    /\ op = "installCustomActions"
    /\ reqs # <<>>
    /\ reqs[1].method = "POST"
    /\ reqs[1].response.status_code = 401
    /\ userInstalledCustomActions # None
    /\ GENERATE_DOCUMENT \notin DictValues(userInstalledCustomActions[1])

----------------------------------------------------------------------------
(* Specification of updateFromDict on the sub-objects: the object updated    *)
(* may hold an id and an etag already, and the dictionary may lack a field.  *)

\* the keys of the wire format of a type
WireKeys(type) ==
    {ToDictOf(type, Fresh(type))[2][i][1] : i \in DOMAIN ToDictOf(type, Fresh(type))[2]}

\* objects to update: constructed with or without id and etag
Targets(type) ==
    {[Fresh(type) EXCEPT !.id = i, !.etag = e] : i \in Opt({MaxId}), e \in Opt({MaxEtag})}

UpdateInputs ==
    UNION {[type : {type}, self : Targets(type), source : Objects(type),
            dropped : Opt(WireKeys(type)), updateExisting : BOOLEAN] :
             type \in SubObjectTypes}

InitUpdate ==
    /\ _token = None
    /\ _refreshToken = None
    /\ whenTokenExpires = None
    /\ isAuthorized = FALSE
    /\ _state = None
    /\ exchanged = FALSE
    /\ now = 0
    /\ NoObjects
    /\ NoRegistry
    /\ op = "__init__"
    /\ args \in UpdateInputs
    /\ ret = RetNone
    /\ reqs = <<>>

NextUpdate ==
    updateFromDict(args.type, args.self, args.source, args.dropped, args.updateExisting)

SpecUpdate == InitUpdate /\ [][NextUpdate]_vars

\* the key under which the wire format carries a field
KeyOf(type) ==
    CASE type = "Address" ->
           [id |-> "id", etag |-> "etag", street |-> "street", city |-> "city",
            state |-> "province", zipcode |-> "postal_code", country |-> "country",
            name |-> "name", default |-> "primary"]
      [] type = "Email" ->
           [id |-> "id", etag |-> "etag", email |-> "address", name |-> "name",
            default |-> "primary"]
      [] type = "PhoneNumber" ->
           [id |-> "id", etag |-> "etag", number |-> "number", name |-> "name",
            default |-> "primary"]

UpdatesSubObject(updateExisting) ==
    /\ IsCall("updateFromDict")
    /\ args'.type \in SubObjectTypes
    /\ args'.updateExisting = updateExisting

\* C28: updateFromDict with updateExisting=False changes no field but id
\* and etag, and changes neither of them when it is already set.
C28_OnlyUnsetIdentityFilled ==
    [][UpdatesSubObject(FALSE)
       => /\ \A f \in DOMAIN args'.self \ {"id", "etag"} :
                args'.after[f] = args'.self[f]
          /\ args'.self.id # None => args'.after.id = args'.self.id
          /\ args'.self.etag # None => args'.after.etag = args'.self.etag]_vars

\* an object that holds an id keeps it, and takes the etag it lacks
C28_Witness ==
    /\ op = "updateFromDict"
    /\ ~args.updateExisting
    /\ args.self.id # None
    /\ args.source.id # None
    /\ args.source.id # args.self.id
    /\ args.after.id = args.self.id
    /\ args.self.etag = None
    /\ args.after.etag = args.source.etag
    /\ args.after.etag # None

C30_NullValuesSkipped ==
    [][(IsCall("updateFromDict") /\ args'.type \in SubObjectTypes)
       => \A f \in DOMAIN args'.self :
            (\E i \in DOMAIN args'.dict[2] :
                /\ args'.dict[2][i][1] = KeyOf(args'.type)[f]
                /\ args'.dict[2][i][2] = PyNone)
            => args'.after[f] = args'.self[f]]_vars

----------------------------------------------------------------------------
(* Specification of the registry of a client whose stored registry names    *)
(* every kind at most once.                                                 *)

\* no two ids of the registry map to the same kind
OnePerKind(registry) ==
    \/ registry = None
    \/ \A i, j \in 1..Len(registry[1]) :
          registry[1][i][2] = registry[1][j][2] => i = j

InitOnePerKind ==
    /\ InitRegistry
    /\ OnePerKind(userInstalledCustomActions)

SpecOnePerKind == InitOnePerKind /\ [][NextRegistry]_vars

====
